---- MODULE Spec2Model ----
(***************************************************************************)
(* stocksmart-manager: the database schema (tables, constraints, foreign   *)
(* keys, the stock_balances view, the row-level security policies and the  *)
(* two trigger functions) of supabase/migrations, and the Receipts and     *)
(* Deliveries page controllers that write to it.                           *)
(*                                                                         *)
(* A uuid column is a natural number, 0 standing for SQL NULL; a text      *)
(* column is a string, NULLTEXT standing for SQL NULL.  A timestamptz is a *)
(* natural number of clock ticks.  NUMERIC(10,2) values are integers.      *)
(***************************************************************************)
EXTENDS Integers, FiniteSets, Sequences, TLC

\* ------------------------------------------------------------------ bounds
MaxMovements == 2   \* rows the ledger may hold
MaxTime      == 1   \* clock ticks
MaxDocs      == 2   \* receipts (and deliveries) that may be inserted
MaxCalls     == 1   \* handleSubmit calls of one page awaiting their insert
MaxLines     == 2   \* receipt_lines (and delivery_lines) that may be inserted

\* ------------------------------------------------------ program constants
NumericLimit == 100000000   \* NUMERIC(10,2): |value| < 10^8

\* ------------------------------------------------------------ input sets
NULL     == 0
NULLTEXT == "<null>"
UserIds  == {1, 2}                       \* auth.users ids
Callers  == UserIds \cup {NULL}          \* auth.uid(): NULL for an anonymous request
app_role      == {"admin", "manager", "staff"}
stock_status  == {"draft", "waiting", "ready", "done", "canceled"}
movement_type == {"receipt", "delivery", "transfer", "adjustment"}
Emails   == {"a@x.io", NULLTEXT}         \* auth.users.email is nullable
MetaNames == {"Ann", NULLTEXT}           \* raw_user_meta_data->>'full_name'
Skus     == {"SKU-1", "SKU-2"}
ProductRefs   == {1, 2}                  \* product ids a client may send
WarehouseRefs == {1}                     \* warehouse ids a client may send
Sessions      == {"s1", "s2"}             \* browser sessions
\* SET lists a client may send
ProfileSets   == { [full_name |-> "Bob"], [id |-> 2, updated_at |-> 0] }
WarehouseSets == { [is_active |-> FALSE], [is_active |-> FALSE, updated_at |-> 0] }
CategorySets  == { [name |-> "Spare Parts"] }
ProductSets   == { [is_active |-> FALSE] }
DocumentSets  == { [status |-> "waiting"], [created_by |-> 2] }
\* (movement_type, quantity, balance_after) triples a client may send
MovementInputs ==
  { <<"receipt", 50, 50>>, <<"delivery", -20, 30>>, <<"adjustment", NumericLimit, 0>> }

VARIABLES
  now,              \* the database clock, now()
  users,            \* auth.users
  profiles,         \* public.profiles
  user_roles,       \* public.user_roles
  warehouses,       \* public.warehouses
  categories,       \* public.categories
  products,         \* public.products
  receipts,         \* public.receipts
  deliveries,       \* public.deliveries
  receipt_lines,    \* public.receipt_lines
  delivery_lines,   \* public.delivery_lines
  stock_movements,  \* public.stock_movements
  serial,           \* rows ever inserted per table (stands for gen_random_uuid())
  lastOp,           \* the last write statement and the response its caller got
  page,             \* per browser session, the state of its Receipts / Deliveries page
  layout,           \* per browser session, the state of its Layout component
  posted            \* history: per (product, warehouse), the running total of accepted inserts

tables == <<users, profiles, user_roles, warehouses, categories, products,
            receipts, receipt_lines, deliveries, delivery_lines, stock_movements>>
vars == <<now, tables, serial, lastOp, page, layout, posted>>

\* The response of a statement.  result: "ok", "denied" (42501, row-level
\* security), "error" (a constraint or type failure).  rows: rows affected.
Response(op, caller, target, result, rows) ==
  [op |-> op, caller |-> caller, target |-> target, result |-> result, rows |-> rows]

\* ------------------------------------------------------------- SQL helpers
\* (a variant that compares with plain equality, so that NULL equals NULL)
PlainEq(a, b) == a = b

\* a = b in SQL is true only when neither side is NULL
SqlEq(a, b) == a # NULL /\ b # NULL /\ a = b

\* UPDATE ... SET: the columns named in the SET list get its values
ApplySet(row, set) ==
  [ f \in DOMAIN row |-> IF f \in DOMAIN set THEN set[f] ELSE row[f] ]

RECURSIVE SumQuantity(_)
SumQuantity(rows) ==
  IF rows = {} THEN 0
  ELSE LET r == CHOOSE x \in rows : TRUE
       IN  r.quantity + SumQuantity(rows \ {r})

InNumericRange(v) == v > -NumericLimit /\ v < NumericLimit

has_role(_user_id, _role) ==
  \E r \in user_roles : r.user_id = _user_id /\ r.role = _role

\* -------------------------------------------------- the stock_balances view
\* (a variant that sums the distinct quantities of a group, SUM(DISTINCT quantity))
stock_balances_distinct ==
  { [ product_id   |-> g[1],
      warehouse_id |-> g[2],
      quantity     |-> SumQuantity({ [quantity |-> m.quantity] : m \in
                         { x \in stock_movements :
                             x.product_id = g[1] /\ x.warehouse_id = g[2] } }) ]
    : g \in { <<m.product_id, m.warehouse_id>> : m \in stock_movements } }

stock_balances ==
  { [ product_id   |-> g[1],
      warehouse_id |-> g[2],
      quantity     |-> SumQuantity({ m \in stock_movements :
                                       m.product_id = g[1] /\ m.warehouse_id = g[2] }) ]
    : g \in { <<m.product_id, m.warehouse_id>> : m \in stock_movements } }

\* (a variant of "Admins can update warehouses" that admits managers as well)
Managers_can_update_warehouses(uid, row) ==
  has_role(uid, "admin") \/ has_role(uid, "manager")

\* (a variant of "Admins can delete roles" that lets an identity drop its own roles)
Owners_can_delete_roles(uid, row) == has_role(uid, "admin") \/ SqlEq(uid, row.user_id)

\* (a variant of "Admins can insert roles" that lets an identity grant itself)
Users_can_insert_own_roles(uid, row) == has_role(uid, "admin") \/ SqlEq(uid, row.user_id)

\* (a variant of "Users can update receipt lines" for managers only)
Managers_can_update_lines(uid, row) == has_role(uid, "manager")

\* ------------------------------------------------ row-level security policies
\* One operator per CREATE POLICY; uid is auth.uid(), row the row examined.
Users_can_view_own_profile(uid, row)   == SqlEq(uid, row.id)
Users_can_update_own_profile(uid, row) == SqlEq(uid, row.id)
Admins_can_view_all_roles(uid, row)    == has_role(uid, "admin")
Admins_can_insert_roles(uid, row)      == has_role(uid, "admin")
Admins_can_delete_roles(uid, row)      == has_role(uid, "admin")
Authenticated_can_view(uid, row)       == uid # NULL      \* TO authenticated USING (true)
Admins_can_insert_warehouses(uid, row) == has_role(uid, "admin")
Admins_can_update_warehouses(uid, row) == has_role(uid, "admin")
Admins_can_manage_categories(uid, row) == has_role(uid, "admin")
Managers_and_admins_can_insert_products(uid, row) ==
  has_role(uid, "admin") \/ has_role(uid, "manager")
Managers_and_admins_can_update_products(uid, row) ==
  has_role(uid, "admin") \/ has_role(uid, "manager")
Staff_can_create_documents(uid, row)   == uid # NULL
Staff_can_update_own_documents(uid, row) ==
  \/ SqlEq(row.created_by, uid)
  \/ has_role(uid, "admin")
  \/ has_role(uid, "manager")
Users_can_insert_lines(uid, row)       == uid # NULL
Users_can_update_lines(uid, row)       == uid # NULL
System_can_insert_stock_movements(uid, row) == uid # NULL

\* The CREATE POLICY statements of the migration: the table, the command
\* (FOR ALL is "all") and the name of each.
Policies ==
  { [table |-> "profiles",        cmd |-> "select", name |-> "Users can view own profile"],
    [table |-> "profiles",        cmd |-> "update", name |-> "Users can update own profile"],
    [table |-> "user_roles",      cmd |-> "select", name |-> "Admins can view all roles"],
    [table |-> "user_roles",      cmd |-> "insert", name |-> "Admins can insert roles"],
    [table |-> "user_roles",      cmd |-> "delete", name |-> "Admins can delete roles"],
    [table |-> "warehouses",      cmd |-> "select", name |-> "Authenticated users can view"],
    [table |-> "warehouses",      cmd |-> "insert", name |-> "Admins can insert warehouses"],
    [table |-> "warehouses",      cmd |-> "update", name |-> "Admins can update warehouses"],
    [table |-> "categories",      cmd |-> "select", name |-> "Authenticated users can view"],
    [table |-> "categories",      cmd |-> "all",    name |-> "Admins can manage categories"],
    [table |-> "products",        cmd |-> "select", name |-> "Authenticated users can view"],
    [table |-> "products",        cmd |-> "insert", name |-> "Managers and admins can insert"],
    [table |-> "products",        cmd |-> "update", name |-> "Managers and admins can update"],
    [table |-> "receipts",        cmd |-> "select", name |-> "Authenticated users can view"],
    [table |-> "receipts",        cmd |-> "insert", name |-> "Staff can create"],
    [table |-> "receipts",        cmd |-> "update", name |-> "Staff can update own"],
    [table |-> "receipt_lines",   cmd |-> "select", name |-> "Authenticated users can view"],
    [table |-> "receipt_lines",   cmd |-> "insert", name |-> "Users can insert lines"],
    [table |-> "receipt_lines",   cmd |-> "update", name |-> "Users can update lines"],
    [table |-> "deliveries",      cmd |-> "select", name |-> "Authenticated users can view"],
    [table |-> "deliveries",      cmd |-> "insert", name |-> "Staff can create"],
    [table |-> "deliveries",      cmd |-> "update", name |-> "Staff can update own"],
    [table |-> "delivery_lines",  cmd |-> "select", name |-> "Authenticated users can view"],
    [table |-> "delivery_lines",  cmd |-> "insert", name |-> "Users can insert lines"],
    [table |-> "delivery_lines",  cmd |-> "update", name |-> "Users can update lines"],
    [table |-> "stock_movements", cmd |-> "select", name |-> "Authenticated users can view"],
    [table |-> "stock_movements", cmd |-> "insert", name |-> "System can insert"] }

\* the USING / WITH CHECK expression of the policy of that name
PolicyHolds(name, uid, row) ==
  CASE name = "Users can view own profile"     -> Users_can_view_own_profile(uid, row)
    [] name = "Users can update own profile"   -> Users_can_update_own_profile(uid, row)
    [] name = "Admins can view all roles"      -> Admins_can_view_all_roles(uid, row)
    [] name = "Admins can insert roles"        -> Admins_can_insert_roles(uid, row)
    [] name = "Admins can delete roles"        -> Admins_can_delete_roles(uid, row)
    [] name = "Authenticated users can view"   -> Authenticated_can_view(uid, row)
    [] name = "Admins can insert warehouses"   -> Admins_can_insert_warehouses(uid, row)
    [] name = "Admins can update warehouses"   -> Admins_can_update_warehouses(uid, row)
    [] name = "Admins can manage categories"   -> Admins_can_manage_categories(uid, row)
    [] name = "Managers and admins can insert" ->
         Managers_and_admins_can_insert_products(uid, row)
    [] name = "Managers and admins can update" ->
         Managers_and_admins_can_update_products(uid, row)
    [] name = "Staff can create"               -> Staff_can_create_documents(uid, row)
    [] name = "Staff can update own"           -> Staff_can_update_own_documents(uid, row)
    [] name = "Users can insert lines"         -> Users_can_insert_lines(uid, row)
    [] name = "Users can update lines"         -> Users_can_update_lines(uid, row)
    [] name = "System can insert"              -> System_can_insert_stock_movements(uid, row)

\* the policies defined for a table and a command
PoliciesFor(table, cmd) ==
  { p \in Policies : p.table = table /\ p.cmd \in {cmd, "all"} }

\* (a variant that lets every authenticated caller delete)
PermitsDeleteToAuthenticated(table, cmd, uid, row) ==
  \/ cmd = "delete" /\ uid # NULL
  \/ \E p \in PoliciesFor(table, cmd) : PolicyHolds(p.name, uid, row)

\* (a variant in which the policies do not bind an admin)
PermitsAdminBypass(table, cmd, uid, row) ==
  \/ has_role(uid, "admin")
  \/ \E p \in PoliciesFor(table, cmd) : PolicyHolds(p.name, uid, row)

\* Row-level security is enabled on every public table: a command on a row is
\* permitted when some policy of the table for that command (or FOR ALL) is
\* true, and to nobody when the table has no such policy.
Permits(table, cmd, uid, row) ==
  CASE table = "profiles" ->
         \/ cmd = "select" /\ Users_can_view_own_profile(uid, row)
         \/ cmd = "update" /\ Users_can_update_own_profile(uid, row)
    [] table = "user_roles" ->
         \/ cmd = "select" /\ Admins_can_view_all_roles(uid, row)
         \/ cmd = "insert" /\ Admins_can_insert_roles(uid, row)
         \/ cmd = "delete" /\ Admins_can_delete_roles(uid, row)
    [] table = "warehouses" ->
         \/ cmd = "select" /\ Authenticated_can_view(uid, row)
         \/ cmd = "insert" /\ Admins_can_insert_warehouses(uid, row)
         \/ cmd = "update" /\ Admins_can_update_warehouses(uid, row)
    [] table = "categories" ->
         \/ cmd = "select" /\ Authenticated_can_view(uid, row)
         \/ Admins_can_manage_categories(uid, row)
    [] table = "products" ->
         \/ cmd = "select" /\ Authenticated_can_view(uid, row)
         \/ cmd = "insert" /\ Managers_and_admins_can_insert_products(uid, row)
         \/ cmd = "update" /\ Managers_and_admins_can_update_products(uid, row)
    [] table \in {"receipts", "deliveries"} ->
         \/ cmd = "select" /\ Authenticated_can_view(uid, row)
         \/ cmd = "insert" /\ Staff_can_create_documents(uid, row)
         \/ cmd = "update" /\ Staff_can_update_own_documents(uid, row)
    [] table \in {"receipt_lines", "delivery_lines"} ->
         \/ cmd = "select" /\ Authenticated_can_view(uid, row)
         \/ cmd = "insert" /\ Users_can_insert_lines(uid, row)
         \/ cmd = "update" /\ Users_can_update_lines(uid, row)
    [] table = "stock_movements" ->
         \/ cmd = "select" /\ Authenticated_can_view(uid, row)
         \/ cmd = "insert" /\ System_can_insert_stock_movements(uid, row)
    [] OTHER -> FALSE

\* ------------------------------------------------- page state (React state)
\* useState(...) of Receipts / Deliveries before the component mounts, and what
\* is in flight: the list fetches, the warehouse fetch, and one entry of calls
\* per running handleSubmit (reply is "sent" until the insert is answered).
EmptyForm == [party |-> "", warehouse_id |-> NULL]
Unmounted ==
  [ kind |-> "none", loading |-> TRUE, dialogOpen |-> FALSE, formData |-> EmptyForm,
    options |-> {}, fetching |-> 0, fetchingWarehouses |-> FALSE,
    calls |-> << >>, toast |-> "none" ]

\* useState(...) of Layout before the component mounts.  getSession is "idle",
\* "pending" (called, its promise not yet resolved), "done", or "stale" (pending
\* for an instance that has unmounted); handled is the auth callback that ran
\* last: who called it, its event and session, and whether it called
\* navigate("/auth").
NoCallback == [by |-> "none", event |-> "none", session |-> NULL, navigated |-> FALSE]
NoLayout ==
  [ mounted |-> FALSE, user |-> NULL, getSession |-> "idle", subscribed |-> FALSE,
    handled |-> NoCallback ]

\* ------------------------------------------------------------------- Init
\* The state the two migrations leave: empty tables but for the seed rows.
Init ==
  /\ now = 0
  /\ users = {}
  /\ profiles = {}
  /\ user_roles = {}
  /\ warehouses = { [id |-> 1, name |-> "Main Warehouse", code |-> "WH-MAIN",
                     is_active |-> TRUE, updated_at |-> 0] }
  /\ categories = { [id |-> 1, name |-> "Raw Materials",  updated_at |-> 0],
                    [id |-> 2, name |-> "Finished Goods", updated_at |-> 0],
                    [id |-> 3, name |-> "Components",     updated_at |-> 0] }
  /\ products = {}
  /\ receipts = {}
  /\ deliveries = {}
  /\ receipt_lines = {}
  /\ delivery_lines = {}
  /\ stock_movements = {}
  /\ serial = [warehouses |-> 1, categories |-> 3, products |-> 0,
               receipts |-> 0, deliveries |-> 0, receipt_lines |-> 0,
               delivery_lines |-> 0, stock_movements |-> 0]
  /\ lastOp = Response("none", NULL, NULL, "ok", 0)
  /\ posted = << >>
  /\ page = [s \in Sessions |-> Unmounted]
  /\ layout = [s \in Sessions |-> NoLayout]

\* now() advances
Tick ==
  /\ now < MaxTime
  /\ now' = now + 1
  /\ lastOp' = Response("tick", NULL, NULL, "ok", 0)
  /\ UNCHANGED <<page, tables, serial, posted, layout>>

\* --------------------------------------------------------------- identities
\* (a variant that falls back to the email when no display name was given)
handle_new_user_email_as_name(NEWROW) ==
  [ id         |-> NEWROW.id,
    full_name  |-> IF NEWROW.raw_full_name # NULLTEXT THEN NEWROW.raw_full_name
                   ELSE NEWROW.email,
    email      |-> NEWROW.email,
    updated_at |-> now ]

\* handle_new_user(): the AFTER INSERT trigger on auth.users
handle_new_user(NEWROW) ==
  [ id         |-> NEWROW.id,
    full_name  |-> IF NEWROW.raw_full_name # NULLTEXT THEN NEWROW.raw_full_name ELSE "",
    email      |-> NEWROW.email,
    updated_at |-> now ]

\* profiles: full_name and email are NOT NULL, id is the primary key
ProfileInsertable(row) ==
  /\ row.full_name # NULLTEXT
  /\ row.email # NULLTEXT
  /\ \A p \in profiles : p.id # row.id

\* (a variant whose trigger swallows the failure of the profile insert)
CreateIdentityKeepingUser(id, email, meta) ==
  /\ \A u \in users : u.id # id
  /\ LET NEWROW == [id |-> id, email |-> email, raw_full_name |-> meta]
         row == [ id |-> id, full_name |-> IF meta # NULLTEXT THEN meta ELSE "",
                  email |-> email, updated_at |-> now ]
     IN  /\ users' = users \cup {NEWROW}
         /\ profiles' = IF row.email # NULLTEXT THEN profiles \cup {row} ELSE profiles
         /\ lastOp' = Response("create_identity", NULL, id, "ok", 1)
  /\ UNCHANGED <<layout, receipt_lines, delivery_lines, page, now, user_roles, warehouses, categories, products, receipts,
                 deliveries, stock_movements, serial, posted>>

\* The auth service inserts a row into auth.users; on_auth_user_created runs
\* handle_new_user in the same transaction, so when the profile insert raises,
\* the auth.users insert is rolled back with it.
CreateIdentity(id, email, meta) ==
  /\ \A u \in users : u.id # id
  /\ LET NEWROW == [id |-> id, email |-> email, raw_full_name |-> meta]
         row == handle_new_user(NEWROW)
     IN  IF ProfileInsertable(row)
         THEN /\ users' = users \cup {NEWROW}
              /\ profiles' = profiles \cup {row}
              /\ lastOp' = Response("create_identity", NULL, id, "ok", 1)
         ELSE /\ UNCHANGED <<users, profiles>>
              /\ lastOp' = Response("create_identity", NULL, id, "error", 0)
  /\ UNCHANGED <<layout, receipt_lines, delivery_lines, page, now, user_roles, warehouses, categories, products, receipts,
                 deliveries, stock_movements, serial, posted>>

\* (a variant with ON DELETE CASCADE in place of ON DELETE SET NULL)
CascadeCreator(rows, id) == { r \in rows : r.created_by # id }

\* ON DELETE actions of the foreign keys that reference auth.users(id)
SetCreatorNull(rows, id) ==
  { IF r.created_by = id THEN [r EXCEPT !.created_by = NULL] ELSE r : r \in rows }

\* The auth service deletes an identity: profiles and user_roles cascade,
\* created_by of receipts, deliveries and stock_movements is set to NULL.
DeleteIdentity(id) ==
  /\ \E u \in users : u.id = id
  /\ users' = { u \in users : u.id # id }
  /\ profiles' = { p \in profiles : p.id # id }
  /\ user_roles' = { r \in user_roles : r.user_id # id }
  /\ receipts' = SetCreatorNull(receipts, id)
  /\ deliveries' = SetCreatorNull(deliveries, id)
  /\ stock_movements' = SetCreatorNull(stock_movements, id)
  /\ lastOp' = Response("delete_identity", NULL, id, "ok", 1)
  /\ UNCHANGED <<layout, receipt_lines, delivery_lines, page, now, warehouses, categories, products, serial, posted>>

\* A role assignment written by the table owner (SQL editor, service key):
\* row-level security is enabled, not forced, so the owner bypasses the
\* policies; the foreign key and UNIQUE(user_id, role) still apply.
ServiceGrantRole(u, role) ==
  /\ \E x \in users : x.id = u
  /\ ~has_role(u, role)
  /\ user_roles' = user_roles \cup {[user_id |-> u, role |-> role]}
  /\ lastOp' = Response("service_grant_role", NULL, u, "ok", 1)
  /\ UNCHANGED <<layout, receipt_lines, delivery_lines, page, now, users, profiles, warehouses, categories, products, receipts,
                 deliveries, stock_movements, serial, posted>>

\* ------------------------------------------------------------- user_roles
\* INSERT INTO user_roles by a client: the WITH CHECK policy is examined
\* before the row is stored, UNIQUE(user_id, role) and the foreign key after.
InsertUserRole(caller, user_id, role) ==
  /\ LET row == [user_id |-> user_id, role |-> role]
     IN  IF ~Permits("user_roles", "insert", caller, row)
         THEN /\ UNCHANGED user_roles
              /\ lastOp' = Response("insert_user_role", caller, user_id, "denied", 0)
         ELSE IF row \in user_roles \/ \A u \in users : u.id # user_id
         THEN /\ UNCHANGED user_roles
              /\ lastOp' = Response("insert_user_role", caller, user_id, "error", 0)
         ELSE /\ user_roles' = user_roles \cup {row}
              /\ lastOp' = Response("insert_user_role", caller, user_id, "ok", 1)
  /\ UNCHANGED <<layout, receipt_lines, delivery_lines, page, now, users, profiles, warehouses, categories, products, receipts,
                 deliveries, stock_movements, serial, posted>>

\* DELETE FROM user_roles WHERE user_id = ... AND role = ... by a client: the
\* USING policy filters the rows; rows it hides are skipped without an error.
DeleteUserRole(caller, user_id, role) ==
  /\ LET hit == { r \in user_roles :
                    /\ r.user_id = user_id /\ r.role = role
                    /\ Permits("user_roles", "delete", caller, r) }
     IN  /\ user_roles' = user_roles \ hit
         /\ lastOp' = Response("delete_user_role", caller, user_id, "ok", Cardinality(hit))
  /\ UNCHANGED <<layout, receipt_lines, delivery_lines, page, now, users, profiles, warehouses, categories, products, receipts,
                 deliveries, stock_movements, serial, posted>>

\* UPDATE user_roles SET role = ... WHERE user_id = ... AND role = ... by a
\* client (user_roles has no UPDATE policy); UNIQUE(user_id, role) applies to
\* the rewritten rows.
UpdateUserRole(caller, user_id, role, new_role) ==
  /\ LET hit == { r \in user_roles :
                    /\ r.user_id = user_id /\ r.role = role
                    /\ Permits("user_roles", "update", caller, r) }
         new(r) == [r EXCEPT !.role = new_role]
     IN  IF \E r \in hit : new(r) \in user_roles \ hit
         THEN /\ UNCHANGED user_roles
              /\ lastOp' = Response("update_user_role", caller, user_id, "error", 0)
         ELSE /\ user_roles' = (user_roles \ hit) \cup { new(r) : r \in hit }
              /\ lastOp' = Response("update_user_role", caller, user_id, "ok",
                                    Cardinality(hit))
  /\ UNCHANGED <<layout, receipt_lines, delivery_lines, page, now, users, profiles,
                 warehouses, categories, products, receipts, deliveries, stock_movements,
                 serial, posted>>

\* ---------------------------------------------------------------- profiles
\* handle_updated_at(): the BEFORE UPDATE trigger function
handle_updated_at(NEWROW) == [NEWROW EXCEPT !.updated_at = now]

\* UPDATE profiles SET ... WHERE id = ... by a client.  profiles_updated_at
\* fires before the row is checked; the UPDATE policy has no WITH CHECK, so its
\* USING expression is also applied to the new row; then the primary key and
\* the foreign key to auth.users.
UpdateProfile(caller, id, set) ==
  /\ LET hit == { p \in profiles :
                    p.id = id /\ Permits("profiles", "update", caller, p) }
         new(p) == handle_updated_at(ApplySet(p, set))
     IN  IF hit = {}
         THEN /\ UNCHANGED profiles
              /\ lastOp' = Response("update_profile", caller, id, "ok", 0)
         ELSE IF \E p \in hit : ~Permits("profiles", "update", caller, new(p))
         THEN /\ UNCHANGED profiles
              /\ lastOp' = Response("update_profile", caller, id, "denied", 0)
         ELSE IF \E p \in hit : \/ \E q \in profiles \ hit : q.id = new(p).id
                                \/ \A u \in users : u.id # new(p).id
         THEN /\ UNCHANGED profiles
              /\ lastOp' = Response("update_profile", caller, id, "error", 0)
         ELSE /\ profiles' = (profiles \ hit) \cup { new(p) : p \in hit }
              /\ lastOp' = Response("update_profile", caller, id, "ok", Cardinality(hit))
  /\ UNCHANGED <<layout, receipt_lines, delivery_lines, page, now, users, user_roles, warehouses, categories, products, receipts,
                 deliveries, stock_movements, serial, posted>>

\* DELETE FROM profiles WHERE id = ... by a client (profiles has no DELETE policy)
DeleteProfile(caller, id) ==
  /\ LET hit == { p \in profiles :
                    p.id = id /\ Permits("profiles", "delete", caller, p) }
     IN  /\ profiles' = profiles \ hit
         /\ lastOp' = Response("delete_profile", caller, id, "ok", Cardinality(hit))
  /\ UNCHANGED <<layout, receipt_lines, delivery_lines, page, now, users, user_roles, warehouses, categories, products, receipts,
                 deliveries, stock_movements, serial, posted>>

\* ----------------------------------------------------------------- products
\* INSERT INTO products by a client: the WITH CHECK policy, then UNIQUE(sku),
\* then the foreign key to categories.
InsertProduct(caller, sku, category_id) ==
  /\ serial.products < MaxDocs
  /\ LET row == [id |-> serial.products + 1, sku |-> sku, category_id |-> category_id,
                 is_active |-> TRUE, updated_at |-> now]
     IN  IF ~Permits("products", "insert", caller, row)
         THEN /\ UNCHANGED <<products, serial>>
              /\ lastOp' = Response("insert_product", caller, NULL, "denied", 0)
         ELSE IF \/ \E p \in products : p.sku = sku
                 \/ category_id # NULL /\ \A c \in categories : c.id # category_id
         THEN /\ UNCHANGED <<products, serial>>
              /\ lastOp' = Response("insert_product", caller, NULL, "error", 0)
         ELSE /\ products' = products \cup {row}
              /\ serial' = [serial EXCEPT !.products = @ + 1]
              /\ lastOp' = Response("insert_product", caller, row.id, "ok", 1)
  /\ UNCHANGED <<layout, receipt_lines, delivery_lines, page, now, users, profiles, user_roles, warehouses, categories, receipts,
                 deliveries, stock_movements, posted>>

\* (a variant whose foreign keys to products(id) do not restrict the delete)
ProductNeverReferenced(id) == FALSE

\* ON DELETE RESTRICT of the foreign keys that reference products(id)
ProductReferenced(id) ==
  \/ \E m \in stock_movements : m.product_id = id
  \/ \E l \in receipt_lines : l.product_id = id
  \/ \E l \in delivery_lines : l.product_id = id

\* ON DELETE RESTRICT of the foreign keys that reference warehouses(id)
WarehouseReferenced(id) ==
  \/ \E m \in stock_movements : m.warehouse_id = id
  \/ \E r \in receipts : r.warehouse_id = id
  \/ \E d \in deliveries : d.warehouse_id = id

\* DELETE FROM products WHERE id = ... by the table owner (no policy applies)
ServiceDeleteProduct(id) ==
  /\ \E p \in products : p.id = id
  /\ IF ProductReferenced(id)
     THEN /\ UNCHANGED products
          /\ lastOp' = Response("service_delete_product", NULL, id, "error", 0)
     ELSE /\ products' = { p \in products : p.id # id }
          /\ lastOp' = Response("service_delete_product", NULL, id, "ok", 1)
  /\ UNCHANGED <<layout, receipt_lines, delivery_lines, page, now, users, profiles, user_roles, warehouses, categories, receipts,
                 deliveries, stock_movements, serial, posted>>

\* DELETE FROM warehouses WHERE id = ... by the table owner
ServiceDeleteWarehouse(id) ==
  /\ \E w \in warehouses : w.id = id
  /\ IF WarehouseReferenced(id)
     THEN /\ UNCHANGED warehouses
          /\ lastOp' = Response("service_delete_warehouse", NULL, id, "error", 0)
     ELSE /\ warehouses' = { w \in warehouses : w.id # id }
          /\ lastOp' = Response("service_delete_warehouse", NULL, id, "ok", 1)
  /\ UNCHANGED <<layout, receipt_lines, delivery_lines, page, now, users, profiles, user_roles, categories, products, receipts,
                 deliveries, stock_movements, serial, posted>>

\* DELETE FROM products WHERE id = ... by a client (products has no DELETE
\* policy); the foreign keys restrict the delete of a row the policies let
\* through
DeleteProduct(caller, id) ==
  /\ LET hit == { p \in products :
                    p.id = id /\ Permits("products", "delete", caller, p) }
     IN  IF \E p \in hit : ProductReferenced(p.id)
         THEN /\ UNCHANGED products
              /\ lastOp' = Response("delete_product", caller, id, "error", 0)
         ELSE /\ products' = products \ hit
              /\ lastOp' = Response("delete_product", caller, id, "ok", Cardinality(hit))
  /\ UNCHANGED <<layout, receipt_lines, delivery_lines, page, now, users, profiles,
                 user_roles, warehouses, categories, receipts, deliveries, stock_movements,
                 serial, posted>>

\* DELETE FROM warehouses WHERE id = ... by a client (warehouses has no DELETE
\* policy)
DeleteWarehouse(caller, id) ==
  /\ LET hit == { w \in warehouses :
                    w.id = id /\ Permits("warehouses", "delete", caller, w) }
     IN  IF \E w \in hit : WarehouseReferenced(w.id)
         THEN /\ UNCHANGED warehouses
              /\ lastOp' = Response("delete_warehouse", caller, id, "error", 0)
         ELSE /\ warehouses' = warehouses \ hit
              /\ lastOp' = Response("delete_warehouse", caller, id, "ok", Cardinality(hit))
  /\ UNCHANGED <<layout, receipt_lines, delivery_lines, page, now, users, profiles,
                 user_roles, categories, products, receipts, deliveries, stock_movements,
                 serial, posted>>

\* INSERT INTO warehouses (name, code) by a client: the WITH CHECK policy, then
\* UNIQUE(code)
InsertWarehouse(caller, code) ==
  /\ serial.warehouses < MaxDocs
  /\ LET row == [id |-> serial.warehouses + 1, name |-> "Annex", code |-> code,
                 is_active |-> TRUE, updated_at |-> now]
     IN  IF ~Permits("warehouses", "insert", caller, row)
         THEN /\ UNCHANGED <<warehouses, serial>>
              /\ lastOp' = Response("insert_warehouse", caller, NULL, "denied", 0)
         ELSE IF \E w \in warehouses : w.code = code
         THEN /\ UNCHANGED <<warehouses, serial>>
              /\ lastOp' = Response("insert_warehouse", caller, NULL, "error", 0)
         ELSE /\ warehouses' = warehouses \cup {row}
              /\ serial' = [serial EXCEPT !.warehouses = @ + 1]
              /\ lastOp' = Response("insert_warehouse", caller, row.id, "ok", 1)
  /\ UNCHANGED <<layout, receipt_lines, delivery_lines, page, now, users, profiles,
                 user_roles, categories, products, receipts, deliveries, stock_movements,
                 posted>>

\* UPDATE products SET ... WHERE id = ... by a client (no trigger is attached
\* to products)
UpdateProduct(caller, id, set) ==
  /\ LET hit == { p \in products :
                    p.id = id /\ Permits("products", "update", caller, p) }
         new(p) == ApplySet(p, set)
     IN  IF \E p \in hit : ~Permits("products", "update", caller, new(p))
         THEN /\ UNCHANGED products
              /\ lastOp' = Response("update_product", caller, id, "denied", 0)
         ELSE /\ products' = (products \ hit) \cup { new(p) : p \in hit }
              /\ lastOp' = Response("update_product", caller, id, "ok", Cardinality(hit))
  /\ UNCHANGED <<layout, receipt_lines, delivery_lines, page, now, users, profiles, user_roles, warehouses, categories, receipts,
                 deliveries, stock_movements, serial, posted>>

\* ------------------------------------------------- warehouses and categories
\* UPDATE warehouses SET ... WHERE id = ... by a client (no trigger is
\* attached to warehouses)
UpdateWarehouse(caller, id, set) ==
  /\ LET hit == { w \in warehouses :
                    w.id = id /\ Permits("warehouses", "update", caller, w) }
         new(w) == ApplySet(w, set)
     IN  IF \E w \in hit : ~Permits("warehouses", "update", caller, new(w))
         THEN /\ UNCHANGED warehouses
              /\ lastOp' = Response("update_warehouse", caller, id, "denied", 0)
         ELSE /\ warehouses' = (warehouses \ hit) \cup { new(w) : w \in hit }
              /\ lastOp' = Response("update_warehouse", caller, id, "ok", Cardinality(hit))
  /\ UNCHANGED <<layout, receipt_lines, delivery_lines, page, now, users, profiles, user_roles, categories, products, receipts,
                 deliveries, stock_movements, serial, posted>>

\* UPDATE categories SET ... WHERE id = ... by a client (no trigger is
\* attached to categories)
UpdateCategory(caller, id, set) ==
  /\ LET hit == { c \in categories :
                    c.id = id /\ Permits("categories", "update", caller, c) }
         new(c) == ApplySet(c, set)
     IN  IF \E c \in hit : ~Permits("categories", "update", caller, new(c))
         THEN /\ UNCHANGED categories
              /\ lastOp' = Response("update_category", caller, id, "denied", 0)
         ELSE /\ categories' = (categories \ hit) \cup { new(c) : c \in hit }
              /\ lastOp' = Response("update_category", caller, id, "ok", Cardinality(hit))
  /\ UNCHANGED <<layout, receipt_lines, delivery_lines, page, now, users, profiles, user_roles, warehouses, products, receipts,
                 deliveries, stock_movements, serial, posted>>

\* (a variant with ON DELETE CASCADE in place of ON DELETE SET NULL)
CascadeCategory(rows, ids) == { p \in rows : p.category_id \notin ids }

\* ON DELETE SET NULL of products.category_id
SetCategoryNull(rows, ids) ==
  { IF p.category_id \in ids THEN [p EXCEPT !.category_id = NULL] ELSE p : p \in rows }

\* DELETE FROM categories WHERE id = ... by a client: "Admins can manage
\* categories" is FOR ALL, so it is the DELETE policy; the referential action
\* on products runs with the delete, whatever the policies of products.
DeleteCategory(caller, id) ==
  /\ LET hit == { c \in categories :
                    c.id = id /\ Permits("categories", "delete", caller, c) }
     IN  /\ categories' = categories \ hit
         /\ products' = SetCategoryNull(products, { c.id : c \in hit })
         /\ lastOp' = Response("delete_category", caller, id, "ok", Cardinality(hit))
  /\ UNCHANGED <<layout, receipt_lines, delivery_lines, page, now, users, profiles,
                 user_roles, warehouses, receipts, deliveries, stock_movements, serial,
                 posted>>

\* ----------------------------------------------------- receipts, deliveries
\* kind is "receipts" or "deliveries"; the two tables and their policies have
\* the same shape (supplier_name / customer_name is the column party).
Documents(kind) == IF kind = "receipts" THEN receipts ELSE deliveries

\* the statement's table gets the rows, the other table stays
StoreDocuments(kind, rows) ==
  IF kind = "receipts"
  THEN receipts' = rows /\ UNCHANGED deliveries
  ELSE deliveries' = rows /\ UNCHANGED receipts

\* (a variant without the UNIQUE constraint on reference)
ReferenceNeverTaken(kind, reference) == FALSE

\* reference TEXT NOT NULL UNIQUE
ReferenceTaken(kind, reference) ==
  \E d \in Documents(kind) : d.reference = reference

\* The foreign keys of a receipts / deliveries row
DocumentReferencesExist(row) ==
  /\ \E w \in warehouses : w.id = row.warehouse_id
  /\ row.created_by = NULL \/ \E u \in users : u.id = row.created_by

\* INSERT INTO receipts / deliveries by a client.  warehouse_id is NOT NULL
\* (and '' is no uuid); the WITH CHECK policy; UNIQUE(reference); the foreign
\* keys.  status defaults to 'draft', updated_at to now().
InsertDocument(kind, caller, reference, warehouse_id, party, created_by) ==
  /\ serial[kind] < MaxDocs
  /\ LET row == [id |-> serial[kind] + 1, reference |-> reference,
                 warehouse_id |-> warehouse_id, party |-> party, status |-> "draft",
                 created_by |-> created_by, updated_at |-> now]
         op  == IF kind = "receipts" THEN "insert_receipt" ELSE "insert_delivery"
     IN  IF warehouse_id = NULL
         THEN /\ UNCHANGED <<receipts, deliveries, serial>>
              /\ lastOp' = Response(op, caller, NULL, "error", 0)
         ELSE IF ~Permits(kind, "insert", caller, row)
         THEN /\ UNCHANGED <<receipts, deliveries, serial>>
              /\ lastOp' = Response(op, caller, NULL, "denied", 0)
         ELSE IF ReferenceTaken(kind, reference) \/ ~DocumentReferencesExist(row)
         THEN /\ UNCHANGED <<receipts, deliveries, serial>>
              /\ lastOp' = Response(op, caller, NULL, "error", 0)
         ELSE /\ StoreDocuments(kind, Documents(kind) \cup {row})
              /\ serial' = [serial EXCEPT ![kind] = @ + 1]
              /\ lastOp' = Response(op, caller, row.id, "ok", 1)
  /\ UNCHANGED <<now, users, profiles, user_roles, warehouses, categories, products,
                 receipt_lines, delivery_lines, stock_movements, posted, layout>>

\* the same statement sent straight to the API, outside any page
ApiInsertDocument(kind, caller, reference, warehouse_id, party, created_by) ==
  /\ InsertDocument(kind, caller, reference, warehouse_id, party, created_by)
  /\ UNCHANGED page

\* UPDATE receipts / deliveries SET ... WHERE id = ... by a client (no trigger
\* is attached to either table).  The UPDATE policy has no WITH CHECK, so its
\* USING expression is also applied to the new row; then the foreign keys.
UpdateDocument(kind, caller, id, set) ==
  /\ LET hit == { d \in Documents(kind) :
                    d.id = id /\ Permits(kind, "update", caller, d) }
         new(d) == ApplySet(d, set)
         op  == IF kind = "receipts" THEN "update_receipt" ELSE "update_delivery"
     IN  IF \E d \in hit : ~Permits(kind, "update", caller, new(d))
         THEN /\ UNCHANGED <<receipts, deliveries>>
              /\ lastOp' = Response(op, caller, id, "denied", 0)
         ELSE IF \E d \in hit : ~DocumentReferencesExist(new(d))
         THEN /\ UNCHANGED <<receipts, deliveries>>
              /\ lastOp' = Response(op, caller, id, "error", 0)
         ELSE /\ StoreDocuments(kind, (Documents(kind) \ hit) \cup { new(d) : d \in hit })
              /\ lastOp' = Response(op, caller, id, "ok", Cardinality(hit))
  /\ UNCHANGED <<layout, receipt_lines, delivery_lines, page, now, users, profiles, user_roles, warehouses, categories, products,
                 stock_movements, serial, posted>>

\* ------------------------------------------ receipt_lines, delivery_lines
\* The two line tables have the same shape: document_id is the column
\* receipt_id / delivery_id, fulfilled_quantity the column received_quantity /
\* delivered_quantity.
LineTable(kind) == IF kind = "receipts" THEN "receipt_lines" ELSE "delivery_lines"

Lines(kind) == IF kind = "receipts" THEN receipt_lines ELSE delivery_lines

\* the statement's line table gets the rows, the other line table stays
StoreLines(kind, rows) ==
  IF kind = "receipts"
  THEN receipt_lines' = rows /\ UNCHANGED delivery_lines
  ELSE delivery_lines' = rows /\ UNCHANGED receipt_lines

\* (a variant without the CHECK constraint on quantity)
QuantityUnchecked(row) == TRUE

\* quantity NUMERIC(10,2) NOT NULL CHECK (quantity > 0)
QuantityCheck(row) == row.quantity > 0

\* The foreign keys of a receipt_lines / delivery_lines row
LineReferencesExist(kind, row) ==
  /\ \E d \in Documents(kind) : d.id = row.document_id
  /\ \E p \in products : p.id = row.product_id

\* INSERT INTO receipt_lines / delivery_lines by a client.  A quantity outside
\* NUMERIC(10,2) is refused when the value is converted; then the WITH CHECK
\* policy; then the CHECK constraint; then the foreign keys.
\* fulfilled_quantity defaults to 0.
InsertLine(kind, caller, document_id, product_id, quantity) ==
  /\ serial[LineTable(kind)] < MaxLines
  /\ LET row == [id |-> serial[LineTable(kind)] + 1, document_id |-> document_id,
                 product_id |-> product_id, quantity |-> quantity,
                 fulfilled_quantity |-> 0]
         op  == IF kind = "receipts" THEN "insert_receipt_line" ELSE "insert_delivery_line"
     IN  IF ~InNumericRange(quantity)
         THEN /\ UNCHANGED <<receipt_lines, delivery_lines, serial>>
              /\ lastOp' = Response(op, caller, NULL, "error", 0)
         ELSE IF ~Permits(LineTable(kind), "insert", caller, row)
         THEN /\ UNCHANGED <<receipt_lines, delivery_lines, serial>>
              /\ lastOp' = Response(op, caller, NULL, "denied", 0)
         ELSE IF ~QuantityCheck(row) \/ ~LineReferencesExist(kind, row)
         THEN /\ UNCHANGED <<receipt_lines, delivery_lines, serial>>
              /\ lastOp' = Response(op, caller, NULL, "error", 0)
         ELSE /\ StoreLines(kind, Lines(kind) \cup {row})
              /\ serial' = [serial EXCEPT ![LineTable(kind)] = @ + 1]
              /\ lastOp' = Response(op, caller, row.id, "ok", 1)
  /\ UNCHANGED <<layout, page, now, users, profiles, user_roles, warehouses, categories,
                 products, receipts, deliveries, stock_movements, posted>>

\* UPDATE receipt_lines / delivery_lines SET ... WHERE id = ... by a client.
\* The UPDATE policy has no WITH CHECK, so its USING expression is also applied
\* to the new row; then the CHECK constraint and the foreign keys.
UpdateLine(kind, caller, id, set) ==
  /\ LET hit == { l \in Lines(kind) :
                    l.id = id /\ Permits(LineTable(kind), "update", caller, l) }
         new(l) == ApplySet(l, set)
         op  == IF kind = "receipts" THEN "update_receipt_line" ELSE "update_delivery_line"
     IN  IF \E l \in hit : ~Permits(LineTable(kind), "update", caller, new(l))
         THEN /\ UNCHANGED <<receipt_lines, delivery_lines>>
              /\ lastOp' = Response(op, caller, id, "denied", 0)
         ELSE IF \E l \in hit : \/ ~InNumericRange(new(l).quantity)
                                \/ ~QuantityCheck(new(l))
                                \/ ~LineReferencesExist(kind, new(l))
         THEN /\ UNCHANGED <<receipt_lines, delivery_lines>>
              /\ lastOp' = Response(op, caller, id, "error", 0)
         ELSE /\ StoreLines(kind, (Lines(kind) \ hit) \cup { new(l) : l \in hit })
              /\ lastOp' = Response(op, caller, id, "ok", Cardinality(hit))
  /\ UNCHANGED <<layout, page, now, users, profiles, user_roles, warehouses, categories,
                 products, receipts, deliveries, stock_movements, serial, posted>>

\* DELETE FROM receipt_lines / delivery_lines WHERE id = ... by a client
\* (neither table has a DELETE policy)
DeleteLine(kind, caller, id) ==
  /\ LET hit == { l \in Lines(kind) :
                    l.id = id /\ Permits(LineTable(kind), "delete", caller, l) }
         op  == IF kind = "receipts" THEN "delete_receipt_line" ELSE "delete_delivery_line"
     IN  /\ StoreLines(kind, Lines(kind) \ hit)
         /\ lastOp' = Response(op, caller, id, "ok", Cardinality(hit))
  /\ UNCHANGED <<layout, page, now, users, profiles, user_roles, warehouses, categories,
                 products, receipts, deliveries, stock_movements, serial, posted>>

\* ON DELETE CASCADE of receipt_lines.receipt_id / delivery_lines.delivery_id
CascadeLines(rows, ids) == { l \in rows : l.document_id \notin ids }

\* DELETE FROM receipts / deliveries WHERE id = ... by a client (neither table
\* has a DELETE policy); the lines of a deleted document go with it
DeleteDocument(kind, caller, id) ==
  /\ LET hit == { d \in Documents(kind) :
                    d.id = id /\ Permits(kind, "delete", caller, d) }
         op  == IF kind = "receipts" THEN "delete_receipt" ELSE "delete_delivery"
     IN  /\ StoreDocuments(kind, Documents(kind) \ hit)
         /\ StoreLines(kind, CascadeLines(Lines(kind), { d.id : d \in hit }))
         /\ lastOp' = Response(op, caller, id, "ok", Cardinality(hit))
  /\ UNCHANGED <<layout, page, now, users, profiles, user_roles, warehouses, categories,
                 products, stock_movements, serial, posted>>

\* DELETE FROM receipts / deliveries WHERE id = ... by the table owner
ServiceDeleteDocument(kind, id) ==
  /\ \E d \in Documents(kind) : d.id = id
  /\ StoreDocuments(kind, { d \in Documents(kind) : d.id # id })
  /\ StoreLines(kind, CascadeLines(Lines(kind), {id}))
  /\ lastOp' = Response(IF kind = "receipts" THEN "service_delete_receipt"
                        ELSE "service_delete_delivery", NULL, id, "ok", 1)
  /\ UNCHANGED <<layout, page, now, users, profiles, user_roles, warehouses, categories,
                 products, stock_movements, serial, posted>>

\* ------------------------------------------------------------------- reads
Tables == {"profiles", "user_roles", "warehouses", "categories", "products",
           "receipts", "receipt_lines", "deliveries", "delivery_lines", "stock_movements"}

Rows(table) ==
  CASE table = "profiles"        -> profiles
    [] table = "user_roles"      -> user_roles
    [] table = "warehouses"      -> warehouses
    [] table = "categories"      -> categories
    [] table = "products"        -> products
    [] table = "receipts"        -> receipts
    [] table = "receipt_lines"   -> receipt_lines
    [] table = "deliveries"      -> deliveries
    [] table = "delivery_lines"  -> delivery_lines
    [] table = "stock_movements" -> stock_movements

\* SELECT * FROM table by a client: the rows the SELECT policies show; rows is
\* the size of the result set
Select(caller, table) ==
  /\ lastOp' = Response("select_" \o table, caller, NULL, "ok",
                        Cardinality({ r \in Rows(table) :
                                        Permits(table, "select", caller, r) }))
  /\ UNCHANGED <<now, tables, serial, page, layout, posted>>

\* ------------------------------------- the Receipts and Deliveries pages
\* the identity signed in in a browser session (auth.uid() of its requests)
SessionUser(s) == IF s = "s1" THEN 1 ELSE 2

\* `RCP-${Date.now()}` / `DEL-${Date.now()}`
Reference(kind, millis) ==
  (IF kind = "receipts" THEN "RCP-" ELSE "DEL-") \o ToString(millis)

\* a sequence without its i-th element
RemoveAt(seq, i) == [ j \in 1..(Len(seq) - 1) |-> IF j < i THEN seq[j] ELSE seq[j + 1] ]

\* The page mounts (Layout shows it to a signed-in user): useEffect calls
\* fetchDeliveries() and fetchWarehouses().  The sessions modelled together
\* show the same page.
Mount(s, kind) ==
  /\ page[s].kind = "none"
  /\ \E u \in users : u.id = SessionUser(s)
  /\ \A t \in Sessions : page[t].kind \in {"none", kind}
  /\ page' = [page EXCEPT ![s] = [Unmounted EXCEPT !.kind = kind, !.fetching = 1,
                                                   !.fetchingWarehouses = TRUE]]
  /\ UNCHANGED <<now, tables, serial, lastOp, posted, layout>>

\* fetchDeliveries() after its await, answered or failed: finally
\* setLoading(false).  (The rows it puts in the list are not kept here: the page
\* only renders them.)
FetchDone(s) ==
  /\ page[s].fetching > 0
  /\ page' = [page EXCEPT ![s].loading = FALSE, ![s].fetching = @ - 1]
  /\ UNCHANGED <<now, tables, serial, lastOp, posted, layout>>

\* fetchWarehouses() after its await: the active warehouses the policy shows
WarehousesFetched(s) ==
  /\ page[s].fetchingWarehouses
  /\ LET data == { w.id : w \in { x \in warehouses :
                       x.is_active /\ Permits("warehouses", "select", SessionUser(s), x) } }
     IN  page' = [page EXCEPT ![s].options = data, ![s].fetchingWarehouses = FALSE]
  /\ UNCHANGED <<now, tables, serial, lastOp, posted, layout>>

\* DialogTrigger / onOpenChange(true)
OpenDialog(s) ==
  /\ page[s].kind # "none" /\ ~page[s].dialogOpen
  /\ page' = [page EXCEPT ![s].dialogOpen = TRUE]
  /\ UNCHANGED <<now, tables, serial, lastOp, posted, layout>>

\* the Cancel button / onOpenChange(false)
CloseDialog(s) ==
  /\ page[s].dialogOpen
  /\ page' = [page EXCEPT ![s].dialogOpen = FALSE]
  /\ UNCHANGED <<now, tables, serial, lastOp, posted, layout>>

\* the onChange / onValueChange handlers of the form: a name is typed, a
\* warehouse is picked among the fetched ones (or none is)
EditForm(s, party, warehouse_id) ==
  /\ page[s].dialogOpen
  /\ warehouse_id \in page[s].options \cup {NULL}
  /\ page[s].formData # [party |-> party, warehouse_id |-> warehouse_id]
  /\ page' = [page EXCEPT ![s].formData = [party |-> party, warehouse_id |-> warehouse_id]]
  /\ UNCHANGED <<now, tables, serial, lastOp, posted, layout>>

\* the inserts sent by the pages and not yet run by the database
InFlight ==
  { c \in Sessions \X (1..MaxCalls) :
      /\ c[2] <= Len(page[c[1]].calls)
      /\ page[c[1]].calls[c[2]].reply = "sent" }

\* handleSubmit up to its await: the form is in the open dialog, its submit
\* button is enabled while loading is false, the name input is required.  The
\* row sent has no created_by.  (No more inserts are sent than the tables may
\* take.)
Submit(s) ==
  /\ page[s].dialogOpen /\ ~page[s].loading
  /\ page[s].formData.party # ""
  /\ Len(page[s].calls) < MaxCalls
  /\ serial[page[s].kind] + Cardinality(InFlight) < MaxDocs
  /\ page' = [page EXCEPT
       ![s].loading = TRUE,
       ![s].calls = Append(@, [reference    |-> Reference(page[s].kind, now),
                               party        |-> page[s].formData.party,
                               warehouse_id |-> page[s].formData.warehouse_id,
                               reply        |-> "sent"])]
  /\ UNCHANGED <<now, tables, serial, lastOp, posted, layout>>

\* the database runs the insert of the i-th handleSubmit of the session
ExecInsert(s, i) ==
  /\ i \in 1..Len(page[s].calls)
  /\ page[s].calls[i].reply = "sent"
  /\ InsertDocument(page[s].kind, SessionUser(s), page[s].calls[i].reference,
                    page[s].calls[i].warehouse_id, page[s].calls[i].party, NULL)
  /\ page' = [page EXCEPT ![s].calls[i].reply = lastOp'.result]

\* (a variant that closes the dialog and clears the form whatever the answer)
ResumeClosingAlways(s, i) ==
  /\ i \in 1..Len(page[s].calls)
  /\ page[s].calls[i].reply # "sent"
  /\ page' = [page EXCEPT
       ![s].toast = IF page[s].calls[i].reply = "ok" THEN "created" ELSE "Failed to create",
       ![s].dialogOpen = FALSE, ![s].formData = EmptyForm,
       ![s].fetching = IF page[s].calls[i].reply = "ok" THEN @ + 1 ELSE @,
       ![s].loading = FALSE, ![s].calls = RemoveAt(@, i)]
  /\ UNCHANGED <<now, tables, serial, lastOp, posted, layout>>

\* handleSubmit after its await.  No error: toast, close the dialog, clear the
\* form, call fetchDeliveries(); an error: toast its message; finally
\* setLoading(false).
Resume(s, i) ==
  /\ i \in 1..Len(page[s].calls)
  /\ page[s].calls[i].reply # "sent"
  /\ IF page[s].calls[i].reply = "ok"
     THEN page' = [page EXCEPT ![s].toast = "created", ![s].dialogOpen = FALSE,
                               ![s].formData = EmptyForm, ![s].fetching = @ + 1,
                               ![s].loading = FALSE,
                               ![s].calls = RemoveAt(@, i)]
     ELSE page' = [page EXCEPT ![s].toast = "Failed to create", ![s].loading = FALSE,
                               ![s].calls = RemoveAt(@, i)]
  /\ UNCHANGED <<now, tables, serial, lastOp, posted, layout>>

\* ------------------------------------------------------------------ Layout
\* the (event, session) pairs the auth client hands to a listener of session s
AuthEvents(s) ==
  { <<"INITIAL_SESSION", NULL>>, <<"INITIAL_SESSION", SessionUser(s)>>,
    <<"SIGNED_IN", SessionUser(s)>>, <<"TOKEN_REFRESHED", SessionUser(s)>>,
    <<"SIGNED_OUT", NULL>> }

\* Layout mounts: user is null, the effect calls getSession() and subscribes
\* to onAuthStateChange.  (One getSession promise per session is outstanding.)
MountLayout(s) ==
  /\ ~layout[s].mounted /\ layout[s].getSession = "idle"
  /\ layout' = [layout EXCEPT ![s] = [NoLayout EXCEPT !.mounted = TRUE,
                                                       !.getSession = "pending",
                                                       !.subscribed = TRUE]]
  /\ UNCHANGED <<now, tables, serial, lastOp, page, posted>>

\* the .then callback of getSession(): no session, navigate("/auth"); a
\* session, setUser(session.user)
GetSessionResolved(s, session) ==
  /\ layout[s].mounted /\ layout[s].getSession = "pending"
  /\ layout' = [layout EXCEPT
       ![s].getSession = "done",
       ![s].user = IF session = NULL THEN @ ELSE session,
       ![s].handled = [by |-> "getSession", event |-> "none", session |-> session,
                       navigated |-> session = NULL]]
  /\ UNCHANGED <<now, tables, serial, lastOp, page, posted>>

\* the same callback once its Layout has unmounted: setUser reaches no
\* component
StaleSessionResolved(s, session) ==
  /\ layout[s].getSession = "stale"
  /\ layout' = [layout EXCEPT ![s].getSession = "idle"]
  /\ UNCHANGED <<now, tables, serial, lastOp, page, posted>>

\* the onAuthStateChange listener: SIGNED_OUT or no session, setUser(null) and
\* navigate("/auth"); otherwise setUser(session.user)
AuthStateChange(s, event, session) ==
  /\ layout[s].mounted /\ layout[s].subscribed
  /\ layout' = [layout EXCEPT
       ![s].user = IF event = "SIGNED_OUT" \/ session = NULL THEN NULL ELSE session,
       ![s].handled = [by |-> "onAuthStateChange", event |-> event, session |-> session,
                       navigated |-> (event = "SIGNED_OUT" \/ session = NULL)]]
  /\ UNCHANGED <<now, tables, serial, lastOp, page, posted>>

\* Layout unmounts (the route changes): the cleanup unsubscribes; a getSession
\* promise that has not resolved stays pending
UnmountLayout(s) ==
  /\ layout[s].mounted
  /\ layout' = [layout EXCEPT ![s] =
       [NoLayout EXCEPT !.getSession = IF layout[s].getSession = "pending"
                                      THEN "stale" ELSE "idle"]]
  /\ UNCHANGED <<now, tables, serial, lastOp, page, posted>>

\* if (!user) return null: Layout renders its children when user is set
RendersContent(s) == layout[s].mounted /\ layout[s].user # NULL

\* ---------------------------------------------------------- stock_movements
\* The foreign keys of a stock_movements row
MovementReferencesExist(row) ==
  /\ \E p \in products : p.id = row.product_id
  /\ \E w \in warehouses : w.id = row.warehouse_id
  /\ row.created_by = NULL \/ \E u \in users : u.id = row.created_by

\* The running total of the accepted inserts of a (product, warehouse) pair
Post(key, quantity) ==
  [ k \in DOMAIN posted \cup {key} |->
      IF k = key
      THEN (IF key \in DOMAIN posted THEN posted[key] ELSE 0) + quantity
      ELSE posted[k] ]

\* INSERT INTO stock_movements by a client.  A quantity outside NUMERIC(10,2)
\* is refused when the value is converted, before any policy is looked at.
InsertStockMovement(caller, product_id, warehouse_id, input, created_by) ==
  /\ serial.stock_movements < MaxMovements
  /\ LET row == [id |-> serial.stock_movements + 1,
                 product_id |-> product_id, warehouse_id |-> warehouse_id,
                 movement_type |-> input[1], quantity |-> input[2],
                 balance_after |-> input[3], created_by |-> created_by]
     IN  IF ~InNumericRange(row.quantity) \/ ~InNumericRange(row.balance_after)
         THEN /\ UNCHANGED <<stock_movements, serial, posted>>
              /\ lastOp' = Response("insert_stock_movement", caller, NULL, "error", 0)
         ELSE IF ~Permits("stock_movements", "insert", caller, row)
         THEN /\ UNCHANGED <<stock_movements, serial, posted>>
              /\ lastOp' = Response("insert_stock_movement", caller, NULL, "denied", 0)
         ELSE IF ~MovementReferencesExist(row)
         THEN /\ UNCHANGED <<stock_movements, serial, posted>>
              /\ lastOp' = Response("insert_stock_movement", caller, NULL, "error", 0)
         ELSE /\ stock_movements' = stock_movements \cup {row}
              /\ serial' = [serial EXCEPT !.stock_movements = @ + 1]
              /\ posted' = Post(<<product_id, warehouse_id>>, row.quantity)
              /\ lastOp' = Response("insert_stock_movement", caller, row.id, "ok", 1)
  /\ UNCHANGED <<layout, receipt_lines, delivery_lines, page, now, users, profiles, user_roles, warehouses, categories, products,
                 receipts, deliveries>>

\* UPDATE stock_movements SET quantity = ... WHERE id = ... by a client: the
\* rows the UPDATE policies let the caller see are rewritten, the others skipped.
UpdateStockMovement(caller, id, quantity) ==
  /\ LET hit == { m \in stock_movements :
                    m.id = id /\ Permits("stock_movements", "update", caller, m) }
     IN  /\ stock_movements' = (stock_movements \ hit)
                                 \cup { [m EXCEPT !.quantity = quantity] : m \in hit }
         /\ lastOp' = Response("update_stock_movement", caller, id, "ok", Cardinality(hit))
  /\ UNCHANGED <<layout, receipt_lines, delivery_lines, page, now, users, profiles, user_roles, warehouses, categories, products,
                 receipts, deliveries, serial, posted>>

\* DELETE FROM stock_movements WHERE id = ... by a client
DeleteStockMovement(caller, id) ==
  /\ LET hit == { m \in stock_movements :
                    m.id = id /\ Permits("stock_movements", "delete", caller, m) }
     IN  /\ stock_movements' = stock_movements \ hit
         /\ lastOp' = Response("delete_stock_movement", caller, id, "ok", Cardinality(hit))
  /\ UNCHANGED <<layout, receipt_lines, delivery_lines, page, now, users, profiles, user_roles, warehouses, categories, products,
                 receipts, deliveries, serial, posted>>

\* ------------------------------------------------------- the ledger's system
\* Identities, one manager-made product catalogue, and the ledger.
LedgerNext ==
  \/ \E id \in UserIds : CreateIdentity(id, "a@x.io", NULLTEXT)
  \/ \E id \in UserIds : DeleteIdentity(id)
  \/ ServiceGrantRole(1, "manager")
  \/ \E c \in UserIds, sku \in Skus : InsertProduct(c, sku, NULL)
  \/ \E id \in ProductRefs : ServiceDeleteProduct(id)
  \/ \E id \in WarehouseRefs : ServiceDeleteWarehouse(id)
  \/ \E c \in Callers, p \in ProductRefs, w \in WarehouseRefs, i \in MovementInputs :
       \E cb \in {c, NULL} : InsertStockMovement(c, p, w, i, cb)
  \/ \E c \in UserIds, m \in stock_movements : UpdateStockMovement(c, m.id, 0)
  \/ \E c \in UserIds, m \in stock_movements : DeleteStockMovement(c, m.id)

SpecLedger == Init /\ [][LedgerNext]_vars

\* C1: in every reachable state the stock_balances view has exactly one row
\* per (product, warehouse) pair that received a movement, and its quantity is
\* the arithmetic sum of the signed quantities accepted for that pair.
C1_BalanceIsSumOfMovements ==
  stock_balances =
    { [product_id |-> k[1], warehouse_id |-> k[2], quantity |-> posted[k]]
      : k \in DOMAIN posted }

\* +50 then -20 for one pair reads 30
C1_Witness ==
  /\ Cardinality(stock_movements) = 2
  /\ \E b \in stock_balances : b.quantity = 30

C11_ReferencedMasterDataIsKept ==
  /\ [](\A m \in stock_movements :
          /\ \E p \in products : p.id = m.product_id
          /\ \E w \in warehouses : w.id = m.warehouse_id)
  /\ [][/\ (/\ lastOp'.op = "service_delete_product"
            /\ \E m \in stock_movements : m.product_id = lastOp'.target)
           => /\ lastOp'.result = "error"
              /\ products' = products /\ stock_movements' = stock_movements
        /\ (/\ lastOp'.op = "service_delete_warehouse"
            /\ \E m \in stock_movements : m.warehouse_id = lastOp'.target)
           => /\ lastOp'.result = "error"
              /\ warehouses' = warehouses /\ stock_movements' = stock_movements]_vars

\* the delete of a product that a movement references has just been refused
C11_Witness ==
  /\ lastOp.op = "service_delete_product" /\ lastOp.result = "error"
  /\ \E m \in stock_movements : m.product_id = lastOp.target
  /\ \E p \in products : p.id = lastOp.target

\* ------------------------------------------- identities, profiles and roles
AccountsNext ==
  \/ Tick
  \/ \E id \in UserIds, e \in Emails, n \in MetaNames : CreateIdentity(id, e, n)
  \/ \E id \in UserIds : DeleteIdentity(id)
  \/ \E u \in UserIds : ServiceGrantRole(u, "admin")
  \/ \E c \in Callers, u \in UserIds, r \in {"admin", "staff"} : InsertUserRole(c, u, r)
  \/ \E c \in Callers, u \in UserIds, r \in {"admin", "staff"} : DeleteUserRole(c, u, r)
  \/ \E c \in Callers, id \in UserIds, set \in ProfileSets : UpdateProfile(c, id, set)
  \/ \E c \in Callers, id \in UserIds : DeleteProfile(c, id)

SpecAccounts == Init /\ [][AccountsNext]_vars

C8_ProfileProvisioned ==
  (lastOp.op = "create_identity" /\ lastOp.result = "ok") =>
    \E u \in users :
      /\ u.id = lastOp.target
      /\ Cardinality({ p \in profiles : p.id = u.id }) = 1
      /\ \A p \in profiles :
           p.id = u.id =>
             /\ p.email = u.email
             /\ p.full_name = IF u.raw_full_name = NULLTEXT THEN "" ELSE u.raw_full_name

\* an identity was created without a display name
C8_Witness ==
  /\ lastOp.op = "create_identity" /\ lastOp.result = "ok"
  /\ \E u \in users : u.id = lastOp.target /\ u.raw_full_name = NULLTEXT
  /\ \E p \in profiles : p.id = lastOp.target /\ p.full_name = ""

\* C9: every identity has its profile row, and an identity whose profile could
\* not be provisioned was not created.
C9_NoIdentityWithoutProfile ==
  /\ \A u \in users : \E p \in profiles : p.id = u.id
  /\ (lastOp.op = "create_identity" /\ lastOp.result = "error") =>
       \A u \in users : u.id # lastOp.target

\* provisioning has just failed (the identity had no email) while another
\* identity exists
C9_Witness ==
  /\ lastOp.op = "create_identity" /\ lastOp.result = "error"
  /\ users # {}

\* ------------------------------------------------------------ master data
CatalogNext ==
  \/ Tick
  \/ \E id \in UserIds : CreateIdentity(id, "a@x.io", NULLTEXT)
  \/ \E u \in UserIds, r \in {"admin", "manager"} : ServiceGrantRole(u, r)
  \/ \E c \in Callers, set \in WarehouseSets : UpdateWarehouse(c, 1, set)
  \/ \E c \in Callers, set \in CategorySets : UpdateCategory(c, 1, set)
  \/ \E c \in Callers : InsertProduct(c, "SKU-1", 1)
  \/ \E c \in Callers, set \in ProductSets : UpdateProduct(c, 1, set)
  \/ \E c \in Callers : DeleteCategory(c, 1)

SpecCatalog == Init /\ [][CatalogNext]_vars

\* C12: a delete of an existing category by an admin succeeds and removes the
\* category; every product is still there, one that referenced the category
\* with category_id NULL and its other fields as they were, the others as they
\* were.
C12_CategoryDeleteKeepsProducts ==
  [][(/\ lastOp'.op = "delete_category"
      /\ has_role(lastOp'.caller, "admin")
      /\ \E c \in categories : c.id = lastOp'.target)
     => /\ lastOp'.result = "ok" /\ lastOp'.rows = 1
        /\ \A c \in categories' : c.id # lastOp'.target
        /\ products' =
             { IF p.category_id = lastOp'.target
               THEN [p EXCEPT !.category_id = NULL] ELSE p : p \in products }
        /\ Cardinality(products') = Cardinality(products)]_vars

\* an admin has just deleted a category that a product referenced
C12_Witness ==
  /\ lastOp.op = "delete_category" /\ lastOp.rows = 1
  /\ \E p \in products : p.category_id = NULL /\ p.sku = "SKU-1"

\* --------------------------------------------- documents through the API
DocumentKinds == {"receipts", "deliveries"}

DocumentsNext ==
  \/ \E id \in UserIds : CreateIdentity(id, "a@x.io", NULLTEXT)
  \/ \E id \in UserIds : DeleteIdentity(id)
  \/ \E r \in {"admin", "manager"} : ServiceGrantRole(2, r)
  \/ \E k \in DocumentKinds, c \in Callers, cb \in {1, NULL} :
       ApiInsertDocument(k, c, "REF-1", 1, "Acme", cb)
  \/ \E k \in DocumentKinds, c \in Callers, set \in DocumentSets :
       UpdateDocument(k, c, 1, set)

SpecDocuments == Init /\ [][DocumentsNext]_vars

\* the caller is neither the row's creator nor a manager nor an admin
Stranger(c, d) ==
  /\ ~(c # NULL /\ d.created_by # NULL /\ d.created_by = c)
  /\ ~has_role(c, "admin")
  /\ ~has_role(c, "manager")

\* C5: an update of a receipts / deliveries row by a caller who is neither its
\* creator nor a manager nor an admin changes no row of any table.
C5_UpdateByStrangerChangesNothing ==
  [][\A k \in DocumentKinds : \A d \in Documents(k) :
       (/\ lastOp'.op = (IF k = "receipts" THEN "update_receipt" ELSE "update_delivery")
        /\ lastOp'.target = d.id
        /\ Stranger(lastOp'.caller, d))
       => tables' = tables]_vars

\* an identity without a role has just tried to update a receipt that another
\* identity created
C5_Witness ==
  /\ lastOp.op = "update_receipt" /\ lastOp.rows = 0
  /\ lastOp.caller # NULL
  /\ \E d \in receipts :
       d.id = lastOp.target /\ d.created_by # NULL /\ Stranger(lastOp.caller, d)

\* C6: an update of a warehouses or categories row by a caller without the
\* admin role, and an update of a products row by a caller with neither the
\* admin nor the manager role, leaves the table unchanged.
C6_MasterDataUpdateNeedsRole ==
  [][/\ (lastOp'.op = "update_warehouse" /\ ~has_role(lastOp'.caller, "admin"))
          => warehouses' = warehouses
     /\ (lastOp'.op = "update_category" /\ ~has_role(lastOp'.caller, "admin"))
          => categories' = categories
     /\ (/\ lastOp'.op = "update_product"
         /\ ~has_role(lastOp'.caller, "admin")
         /\ ~has_role(lastOp'.caller, "manager"))
          => products' = products]_vars

\* a manager who is no admin has just tried to update the seed warehouse
C6_Witness ==
  /\ lastOp.op = "update_warehouse" /\ lastOp.rows = 0
  /\ has_role(lastOp.caller, "manager") /\ ~has_role(lastOp.caller, "admin")
  /\ \E w \in warehouses : w.id = lastOp.target

\* C7: after an update that rewrote a row of profiles, warehouses, categories,
\* products, receipts or deliveries, that row's updated_at is the current time.
C7_EveryUpdateStampsUpdatedAt ==
  /\ (lastOp.op = "update_profile" /\ lastOp.rows > 0) =>
       \A r \in profiles : r.id = lastOp.target => r.updated_at = now
  /\ (lastOp.op = "update_warehouse" /\ lastOp.rows > 0) =>
       \A r \in warehouses : r.id = lastOp.target => r.updated_at = now
  /\ (lastOp.op = "update_category" /\ lastOp.rows > 0) =>
       \A r \in categories : r.id = lastOp.target => r.updated_at = now
  /\ (lastOp.op = "update_product" /\ lastOp.rows > 0) =>
       \A r \in products : r.id = lastOp.target => r.updated_at = now
  /\ (lastOp.op = "update_receipt" /\ lastOp.rows > 0) =>
       \A r \in receipts : r.id = lastOp.target => r.updated_at = now
  /\ (lastOp.op = "update_delivery" /\ lastOp.rows > 0) =>
       \A r \in deliveries : r.id = lastOp.target => r.updated_at = now

\* ------------------------------------------- every table through the API
\* Identity 1 is made an admin by the table owner; an admin, an identity
\* without the admin role and an anonymous caller send the statements.
PoliciesNext ==
  \/ \E id \in UserIds : CreateIdentity(id, "a@x.io", NULLTEXT)
  \/ ServiceGrantRole(1, "admin")
  \/ \E c \in Callers : InsertUserRole(c, 2, "staff")
  \/ \E c \in Callers : UpdateUserRole(c, 2, "staff", "manager")
  \/ \E c \in Callers : DeleteUserRole(c, 2, "staff")
  \/ \E c \in Callers : UpdateProfile(c, 2, [full_name |-> "Bob"])
  \/ \E c \in Callers : DeleteProfile(c, 2)
  \/ \E c \in Callers : InsertWarehouse(c, "WH-2")
  \/ \E c \in Callers : DeleteWarehouse(c, 1)
  \/ \E c \in Callers : DeleteCategory(c, 2)
  \/ \E c \in Callers : InsertProduct(c, "SKU-1", 1)
  \/ \E c \in Callers : DeleteProduct(c, 1)
  \/ \E k \in DocumentKinds, c \in Callers : ApiInsertDocument(k, c, "REF-1", 1, "Acme", 2)
  \/ \E c \in Callers : UpdateDocument("receipts", c, 1, [status |-> "waiting"])
  \/ \E k \in DocumentKinds, c \in Callers : DeleteDocument(k, c, 1)
  \/ \E c \in Callers : InsertStockMovement(c, 1, 1, <<"receipt", 50, 50>>, NULL)
  \/ \E c \in Callers : UpdateStockMovement(c, 1, 0)
  \/ \E c \in Callers : DeleteStockMovement(c, 1)
  \/ \E c \in Callers, t \in {"profiles", "user_roles", "receipts"} : Select(c, t)

SpecPolicies == Init /\ [][PoliciesNext]_vars

\* the table and the command of a statement
StatementOf(op) ==
  CASE op = "insert_user_role"      -> [table |-> "user_roles",      cmd |-> "insert"]
    [] op = "update_user_role"      -> [table |-> "user_roles",      cmd |-> "update"]
    [] op = "delete_user_role"      -> [table |-> "user_roles",      cmd |-> "delete"]
    [] op = "update_profile"        -> [table |-> "profiles",        cmd |-> "update"]
    [] op = "delete_profile"        -> [table |-> "profiles",        cmd |-> "delete"]
    [] op = "insert_warehouse"      -> [table |-> "warehouses",      cmd |-> "insert"]
    [] op = "delete_warehouse"      -> [table |-> "warehouses",      cmd |-> "delete"]
    [] op = "delete_category"       -> [table |-> "categories",      cmd |-> "delete"]
    [] op = "insert_product"        -> [table |-> "products",        cmd |-> "insert"]
    [] op = "delete_product"        -> [table |-> "products",        cmd |-> "delete"]
    [] op = "insert_receipt"        -> [table |-> "receipts",        cmd |-> "insert"]
    [] op = "update_receipt"        -> [table |-> "receipts",        cmd |-> "update"]
    [] op = "delete_receipt"        -> [table |-> "receipts",        cmd |-> "delete"]
    [] op = "insert_delivery"       -> [table |-> "deliveries",      cmd |-> "insert"]
    [] op = "delete_delivery"       -> [table |-> "deliveries",      cmd |-> "delete"]
    [] op = "insert_stock_movement" -> [table |-> "stock_movements", cmd |-> "insert"]
    [] op = "update_stock_movement" -> [table |-> "stock_movements", cmd |-> "update"]
    [] op = "delete_stock_movement" -> [table |-> "stock_movements", cmd |-> "delete"]
    [] op = "select_profiles"       -> [table |-> "profiles",        cmd |-> "select"]
    [] op = "select_user_roles"     -> [table |-> "user_roles",      cmd |-> "select"]
    [] op = "select_receipts"       -> [table |-> "receipts",        cmd |-> "select"]
    [] OTHER                        -> [table |-> "none",            cmd |-> "none"]

\* some policy of the table for the command is true for the caller and the row
SomePolicyHolds(table, cmd, uid, row) ==
  \E p \in PoliciesFor(table, cmd) : PolicyHolds(p.name, uid, row)

\* the rows a statement's WHERE clause names (user_roles has no id column: the
\* statements name the rows of an identity)
Targets(table, target) ==
  IF table = "user_roles"
  THEN { r \in user_roles : r.user_id = target }
  ELSE { r \in Rows(table) : r.id = target }

\* The policies deny the statement: for an insert, no INSERT policy is true
\* for the caller (none of them reads the new row); for an update or a delete,
\* the rows named exist and no policy is true for any of them; for a read, the
\* table has rows and no policy is true for any of them.
PoliciesDeny(op, caller, target) ==
  LET st == StatementOf(op)
  IN  CASE st.cmd = "insert" -> ~SomePolicyHolds(st.table, "insert", caller, << >>)
        [] st.cmd \in {"update", "delete"} ->
             /\ Targets(st.table, target) # {}
             /\ \A r \in Targets(st.table, target) :
                  ~SomePolicyHolds(st.table, st.cmd, caller, r)
        [] st.cmd = "select" ->
             /\ Rows(st.table) # {}
             /\ \A r \in Rows(st.table) : ~SomePolicyHolds(st.table, "select", caller, r)
        [] OTHER -> FALSE

UnpolicedOps ==
  { "delete_warehouse", "delete_product", "delete_receipt", "delete_delivery",
    "delete_stock_movement", "update_user_role", "delete_profile" }

ClientsNext ==
  \/ \E id \in UserIds : CreateIdentity(id, "a@x.io", NULLTEXT)
  \/ \E id \in UserIds : DeleteIdentity(id)
  \/ \E c \in Callers, u \in UserIds, r \in {"admin", "manager"} : InsertUserRole(c, u, r)
  \/ \E c \in Callers, u \in UserIds : UpdateUserRole(c, u, "staff", "admin")
  \/ \E c \in Callers, u \in UserIds : DeleteUserRole(c, u, "admin")
  \/ \E c \in Callers, set \in ProfileSets : UpdateProfile(c, 1, set)
  \/ \E c \in Callers : InsertWarehouse(c, "WH-2")
  \/ \E c \in Callers, set \in WarehouseSets : UpdateWarehouse(c, 1, set)
  \/ \E c \in Callers, set \in CategorySets : UpdateCategory(c, 1, set)
  \/ \E c \in Callers : DeleteCategory(c, 1)
  \/ \E c \in Callers : InsertProduct(c, "SKU-1", 1)
  \/ \E c \in Callers, set \in ProductSets : UpdateProduct(c, 1, set)
  \/ \E c \in Callers : ApiInsertDocument("receipts", c, "REF-1", 1, "Acme", c)
  \/ \E c \in Callers, set \in DocumentSets : UpdateDocument("receipts", c, 1, set)

SpecClients == Init /\ [][ClientsNext]_vars

\* C17: user_roles is empty and has_role is false for every identity and
\* role; the tables that only an admin or a manager may write hold the seed
\* rows, unchanged, and nothing else.
C17_NoRoleWithoutTheOwner ==
  /\ user_roles = {}
  /\ \A u \in Callers, r \in app_role : ~has_role(u, r)
  /\ products = {}
  /\ warehouses = { [id |-> 1, name |-> "Main Warehouse", code |-> "WH-MAIN",
                     is_active |-> TRUE, updated_at |-> 0] }
  /\ { c.name : c \in categories } = {"Raw Materials", "Finished Goods", "Components"}
  /\ Cardinality(categories) = 3

\* an identity has just tried to give itself the admin role
C17_Witness ==
  /\ lastOp.op = "insert_user_role" /\ lastOp.result = "denied"
  /\ lastOp.caller # NULL /\ lastOp.caller = lastOp.target
  /\ \E u \in users : u.id = lastOp.caller

\* ------------------------------------------------ documents and their lines
LineQuantities == {0, 5}

\* Identity 1 is a manager and makes the product and the documents; both
\* identities write lines; the table owner deletes documents and products.
LinesNext ==
  \/ \E id \in UserIds : CreateIdentity(id, "a@x.io", NULLTEXT)
  \/ ServiceGrantRole(1, "manager")
  \/ InsertProduct(1, "SKU-1", NULL)
  \/ \E ref \in {"REF-1", "REF-2"} : ApiInsertDocument("receipts", 1, ref, 1, "Acme", 1)
  \/ ApiInsertDocument("deliveries", 1, "REF-1", 1, "Acme", 1)
  \/ UpdateDocument("receipts", 2, 1, [status |-> "waiting"])
  \/ \E c \in {2, NULL}, d \in 1..MaxDocs, q \in LineQuantities :
       InsertLine("receipts", c, d, 1, q)
  \/ InsertLine("deliveries", 2, 1, 1, 5)
  \/ \E c \in {2, NULL} : \E l \in receipt_lines :
       UpdateLine("receipts", c, l.id, [quantity |-> 0])
  \/ \E l \in delivery_lines : UpdateLine("deliveries", 2, l.id, [quantity |-> 7])
  \/ \E k \in DocumentKinds : \E l \in Lines(k) : DeleteLine(k, 1, l.id)
  \/ \E k \in DocumentKinds : \E d \in Documents(k) : DeleteDocument(k, 1, d.id)
  \/ \E k \in DocumentKinds : \E d \in Documents(k) : ServiceDeleteDocument(k, d.id)
  \/ ServiceDeleteProduct(1)

SpecLines == Init /\ [][LinesNext]_vars

\* C16: every receipt line / delivery line has a quantity above zero and a
\* parent document that exists; a step stores no line whose quantity is zero
\* or less; and a step removes a line exactly when it removes the line's
\* parent document.
C16_LinesPositiveAndOwned ==
  /\ [](\A k \in DocumentKinds : \A l \in Lines(k) :
          /\ l.quantity > 0
          /\ \E d \in Documents(k) : d.id = l.document_id)
  /\ [][\A k \in DocumentKinds :
          /\ \A l \in Lines(k)' : l.quantity > 0
          /\ \A l \in Lines(k) :
               (\A n \in Lines(k)' : n.id # l.id)
                 <=> (\A d \in Documents(k)' : d.id # l.document_id)]_vars

\* a receipt with a line has just been deleted, and the line of another
\* receipt is still there
C16_Witness ==
  /\ lastOp.op = "service_delete_receipt"
  /\ serial.receipt_lines = 2
  /\ \E l \in receipt_lines : l.document_id # lastOp.target
  /\ Cardinality(receipt_lines) = 1

\* C19: an insert into receipt_lines / delivery_lines by an authenticated caller
\* is never refused by the policies, an update of an existing line by an
\* authenticated caller is never refused by them and rewrites the line when no
\* constraint fails, whoever created the parent document; a delete of a line
\* by a client removes nothing.
C19_LinesOpenToEveryIdentity ==
  [][/\ (/\ lastOp'.op \in {"insert_receipt_line", "insert_delivery_line"}
         /\ lastOp'.caller # NULL)
        => lastOp'.result # "denied"
     /\ \A k \in DocumentKinds :
          (/\ lastOp'.op = (IF k = "receipts" THEN "update_receipt_line"
                                              ELSE "update_delivery_line")
           /\ lastOp'.caller # NULL
           /\ \E l \in Lines(k) : l.id = lastOp'.target)
          => /\ lastOp'.result # "denied"
             /\ lastOp'.result = "ok" => lastOp'.rows = 1
     /\ lastOp'.op \in {"delete_receipt_line", "delete_delivery_line"}
        => /\ lastOp'.rows = 0
           /\ receipt_lines' = receipt_lines /\ delivery_lines' = delivery_lines]_vars

\* an identity without a role has just rewritten a line of a delivery that
\* another identity created
C19_Witness ==
  /\ lastOp.op = "update_delivery_line" /\ lastOp.rows = 1
  /\ \E l \in delivery_lines :
       /\ l.id = lastOp.target /\ l.quantity = 7
       /\ \E d \in deliveries :
            /\ d.id = l.document_id /\ d.created_by # NULL
            /\ Stranger(lastOp.caller, d)

\* ---------------------------------------------------- documents through pages
\* a step of the page of session s, or of the database on its behalf
FormStep(s) ==
  \/ \E k \in DocumentKinds : Mount(s, k)
  \/ FetchDone(s)
  \/ WarehousesFetched(s)
  \/ OpenDialog(s)
  \/ \E w \in WarehouseRefs : EditForm(s, "Acme", w)
  \/ Submit(s)
  \/ \E i \in 1..MaxCalls : ExecInsert(s, i)
  \/ \E i \in 1..MaxCalls : Resume(s, i)

\* the same steps, and the Cancel button
PageStep(s) ==
  \/ FormStep(s)
  \/ CloseDialog(s)

\* two sessions at work on the same page, neither cancelling its dialog
PagesNext ==
  \/ Tick
  \/ \E id \in UserIds : CreateIdentity(id, "a@x.io", NULLTEXT)
  \/ \E s \in Sessions : FormStep(s)

SpecPages == Init /\ [][PagesNext]_vars

\* One session at work.  An insert that was sent is answered, and the
\* handleSubmit that awaits an answer resumes.
SubmitNext ==
  \/ Tick
  \/ CreateIdentity(1, "a@x.io", NULLTEXT)
  \/ PageStep("s1")

SpecSubmit ==
  /\ Init /\ [][SubmitNext]_vars
  /\ \A i \in 1..MaxCalls : WF_vars(ExecInsert("s1", i)) /\ WF_vars(Resume("s1", i))

\* ------------------------------------------------------- the auth guard
LayoutNext ==
  \E s \in Sessions :
    \/ MountLayout(s)
    \/ \E session \in {NULL, SessionUser(s)} : GetSessionResolved(s, session)
    \/ \E session \in {NULL, SessionUser(s)} : StaleSessionResolved(s, session)
    \/ \E e \in AuthEvents(s) : AuthStateChange(s, e[1], e[2])
    \/ UnmountLayout(s)

SpecLayout == Init /\ [][LayoutNext]_vars

\* the auth callback handled last carried no session
NoSessionHandled(s) ==
  /\ layout[s].handled.by # "none"
  /\ layout[s].handled.event = "SIGNED_OUT" \/ layout[s].handled.session = NULL

\* C20: Layout renders its children only while user is set, and when the auth
\* callback it handled last carried no session, user is null and that
\* callback called navigate("/auth").
C20_NoSessionClearsUser ==
  \A s \in Sessions :
    /\ RendersContent(s) => layout[s].user # NULL
    /\ (layout[s].mounted /\ NoSessionHandled(s))
         => (layout[s].user = NULL /\ layout[s].handled.navigated)

\* one session at work, and updates of the documents it makes
OwnDocumentsNext ==
  \/ Tick
  \/ \E id \in UserIds : CreateIdentity(id, "a@x.io", NULLTEXT)
  \/ \E r \in {"manager", "staff"} : ServiceGrantRole(1, r)
  \/ PageStep("s1")
  \/ \E k \in DocumentKinds, c \in Callers : \E d \in Documents(k) :
       UpdateDocument(k, c, d.id, [status |-> "waiting"])

SpecOwnDocuments == Init /\ [][OwnDocumentsNext]_vars

\* C4: a receipt or delivery made by a page's handleSubmit can be updated by
\* the identity that submitted it, whatever its roles: when that identity's
\* update of the row follows the insert, it rewrites the row.
C4_SubmitterCanUpdateOwnDocument ==
  [][\A k \in DocumentKinds :
       (/\ lastOp.op = (IF k = "receipts" THEN "insert_receipt" ELSE "insert_delivery")
        /\ lastOp.result = "ok"
        /\ lastOp'.op = (IF k = "receipts" THEN "update_receipt" ELSE "update_delivery")
        /\ lastOp'.caller = lastOp.caller
        /\ lastOp'.target = lastOp.target)
       => lastOp'.rows = 1]_vars

\* the step of the database that answers call i of session s
Answered(s, i) ==
  /\ i \in 1..Len(page[s].calls)
  /\ page[s].calls[i].reply = "sent"
  /\ Len(page'[s].calls) = Len(page[s].calls)
  /\ page'[s].calls[i].reply # "sent"

\* the step of handleSubmit that resumes call i of session s
Resumed(s, i) ==
  /\ i \in 1..Len(page[s].calls)
  /\ page[s].calls[i].reply # "sent"
  /\ page'[s].calls = RemoveAt(page[s].calls, i)

SentCalls(p) == { i \in 1..Len(p.calls) : p.calls[i].reply = "sent" }

\* C18: while a handleSubmit of a page awaits its insert, the page's loading
\* flag is true, and a page has at most one insert in flight.
C18_LoadingWhileInsertInFlight ==
  \A s \in Sessions :
    /\ page[s].calls # << >> => page[s].loading
    /\ Len(page[s].calls) <= 1

\* C15: a handleSubmit whose insert was stored clears the form, closes the
\* dialog and starts a fetch of the list; one whose insert failed shows the
\* error, sends no insert and leaves the form and the dialog as they are; both
\* set loading to false; and once a handleSubmit awaits its insert, loading
\* becomes false (by that handleSubmit, when no fetch of the list is running).
C15_SubmitOutcome ==
  /\ [][\A i \in 1..MaxCalls :
          /\ (Resumed("s1", i) /\ page["s1"].calls[i].reply = "ok")
             => /\ page'["s1"].formData = EmptyForm
                /\ ~page'["s1"].dialogOpen
                /\ page'["s1"].fetching = page["s1"].fetching + 1
                /\ page'["s1"].toast = "created"
                /\ ~page'["s1"].loading
          /\ (Resumed("s1", i) /\ page["s1"].calls[i].reply # "ok")
             => /\ page'["s1"].formData = page["s1"].formData
                /\ page'["s1"].dialogOpen = page["s1"].dialogOpen
                /\ page'["s1"].fetching = page["s1"].fetching
                /\ page'["s1"].toast = "Failed to create"
                /\ SentCalls(page'["s1"]) \subseteq 1..Len(page["s1"].calls)
                /\ Cardinality(SentCalls(page'["s1"])) = Cardinality(SentCalls(page["s1"]))
                /\ tables' = tables
                /\ ~page'["s1"].loading]_vars
  /\ (page["s1"].calls # << >>) ~> ~page["s1"].loading
  /\ (page["s1"].calls # << >> /\ page["s1"].loading /\ page["s1"].fetching = 0)
       ~> (~page["s1"].loading /\ page["s1"].toast # "none")

\* a handleSubmit whose insert failed has just resumed: the dialog is open and
\* the form still filled
C15_Witness ==
  /\ page["s1"].toast = "Failed to create"
  /\ page["s1"].dialogOpen /\ page["s1"].formData.party = "Acme"
  /\ page["s1"].calls = << >> /\ ~page["s1"].loading
  /\ Cardinality(Documents(page["s1"].kind)) = 1

\* C10: no two receipts (deliveries) share a reference; an insert whose
\* reference is already stored is answered with an error and changes no row;
\* and the handleSubmit that gets the error shows it and sends no other insert.
C10_SecondInsertOfAReferenceFails ==
  /\ [](\A k \in DocumentKinds : \A d, e \in Documents(k) :
          d.reference = e.reference => d = e)
  /\ [][\A s \in Sessions : \A i \in 1..MaxCalls :
          /\ (/\ Answered(s, i)
              /\ \E d \in Documents(page[s].kind) :
                   d.reference = page[s].calls[i].reference)
             => /\ page'[s].calls[i].reply = "error"
                /\ receipts' = receipts /\ deliveries' = deliveries
          /\ (Resumed(s, i) /\ page[s].calls[i].reply = "error")
             => /\ page'[s].toast = "Failed to create"
                /\ Cardinality(SentCalls(page'[s])) <= Cardinality(SentCalls(page[s]))
                /\ receipts' = receipts /\ deliveries' = deliveries]_vars

\* two sessions submitted in the same millisecond: one insert was stored, the
\* other refused
C10_Witness ==
  \E s, t \in Sessions :
    /\ s # t
    /\ Len(page[s].calls) = 1 /\ Len(page[t].calls) = 1
    /\ page[s].calls[1].reference = page[t].calls[1].reference
    /\ page[s].calls[1].reply = "ok" /\ page[t].calls[1].reply = "error"
    /\ Cardinality(Documents(page[s].kind)) = 1

====
